---------------------------- MODULE Spec2Model ----------------------------
(***************************************************************************)
(* FileScope (main.go): a directory scan that collects FileInfo records,   *)
(* aggregates them (analyzeFiles) and prints a report (printAnalysis).     *)
(*                                                                         *)
(* Strings are sequences of one-character strings, so that filepath.Ext,   *)
(* filepath.Dir, filepath.Base and strings.ToLower are computed character  *)
(* by character as the library does.  Times are whole seconds; the zero    *)
(* time.Time is 0.                                                         *)
(*                                                                         *)
(* Three specifications:                                                   *)
(*   Spec        main() from flag parsing to the call of analyzeFiles,     *)
(*               over every file system of the candidate tree Cand;        *)
(*   SpecReport  analyzeFiles and printAnalysis over every collected list  *)
(*               of at most MaxFiles records;                              *)
(*   SpecFmt     formatTime over a set of elapsed durations.               *)
(***************************************************************************)
EXTENDS Integers, Sequences, FiniteSets, TLC

VARIABLES
    pc,             \* position of main(): start, walk, walked, print, done (report
                    \* printed), exit (an early return or os.Exit)
    dirFlag,        \* *dirPtr
    minSize,        \* *minSizePtr
    fsys,           \* what exists at Cand[1..Len(fsys)] (the part of the tree walked so far)
    rootKind,       \* what filepath.WalkDir found at the root
    files,          \* var files []FileInfo
    totalSize,      \* var totalSize int64
    directorySizes, \* directorySizes map[string]int64
    walkErr,        \* err returned by filepath.WalkDir
    out,            \* messages printed by main, in order
    results,        \* AnalysisResults returned by analyzeFiles
    now,            \* time.Now()
    topN,           \* *topPtr
    daysUnused,     \* *daysUnusedPtr
    report,         \* the sections printed by printAnalysis
    fmtIn,          \* formatTime: the elapsed duration now - t
    fmtOut          \* formatTime: the returned string

vars == <<pc, dirFlag, minSize, fsys, rootKind, files, totalSize, directorySizes,
          walkErr, out, results, now, topN, daysUnused, report, fmtIn, fmtOut>>

scanVars == <<dirFlag, minSize, fsys, rootKind, files, totalSize, directorySizes,
              walkErr, out>>
reportVars == <<now, topN, daysUnused, report>>
fmtVars == <<fmtIn, fmtOut>>

Nil == "nil"

-----------------------------------------------------------------------------
(* Bounds of the model *)

NumTimes == 2      \* modification times of walked files are 1..NumTimes
MaxFiles == 3      \* SpecReport: length of the collected list

-----------------------------------------------------------------------------
(* Generic helpers *)

Min(a, b) == IF a < b THEN a ELSE b
Max(a, b) == IF a > b THEN a ELSE b

Range(s) == {s[i] : i \in 1..Len(s)}

\* Sum of the Size fields of a sequence of records.
RECURSIVE SumSizes(_)
SumSizes(s) == IF s = << >> THEN 0 ELSE Head(s).Size + SumSizes(Tail(s))

RECURSIVE SumMap(_)
SumMap(m) ==
    IF DOMAIN m = {} THEN 0
    ELSE LET k == CHOOSE x \in DOMAIN m : TRUE
         IN  m[k] + SumMap([x \in DOMAIN m \ {k} |-> m[x]])

\* All orderings of the elements of a duplicate-free sequence.
Perms(s) ==
    {p \in [1..Len(s) -> Range(s)] : \A i, j \in 1..Len(s) : i # j => p[i] # p[j]}

\* Position of x in the duplicate-free sequence s.
IndexOf(s, x) == CHOOSE i \in 1..Len(s) : s[i] = x

-----------------------------------------------------------------------------
(* Strings *)

EmptyMap == << >>

\* Go map update m[k] += v (a missing key reads as the zero value).
MapAdd(m, k, v) ==
    [x \in DOMAIN m \cup {k} |->
        IF x = k THEN (IF k \in DOMAIN m THEN m[k] ELSE 0) + v ELSE m[x]]

Separator == "/"
Dot == <<".">>

\* Byte order of the characters that occur in the model's strings.
Alphabet == <<".", "/", "T", "X", "_", "a", "b", "c", "d", "e", "i", "n", "o", "s", "t", "x">>
Rank(c) == CHOOSE i \in 1..Len(Alphabet) : Alphabet[i] = c

\* Go's string comparison a < b.
RECURSIVE StrLess(_, _)
StrLess(a, b) ==
    IF b = << >> THEN FALSE
    ELSE IF a = << >> THEN TRUE
    ELSE IF Head(a) = Head(b) THEN StrLess(Tail(a), Tail(b))
    ELSE Rank(Head(a)) < Rank(Head(b))

ToLowerChar(c) ==
    CASE c = "T" -> "t"
      [] c = "X" -> "x"
      [] OTHER -> c

ToLower(s) == [i \in 1..Len(s) |-> ToLowerChar(s[i])]

\* filepath.Ext: scan back from the end, stop at a separator; the result
\* starts AT the final dot of the last element.
RECURSIVE ExtFrom(_, _)
ExtFrom(path, i) ==
    IF i < 1 \/ path[i] = Separator THEN << >>
    ELSE IF path[i] = "." THEN SubSeq(path, i, Len(path))
    ELSE ExtFrom(path, i - 1)

Ext(path) == ExtFrom(path, Len(path))

\* Index of the last separator of path, 0 if there is none.
RECURSIVE LastSep(_, _)
LastSep(path, i) ==
    IF i < 1 THEN 0 ELSE IF path[i] = Separator THEN i ELSE LastSep(path, i - 1)

\* filepath.Base (fs.FileInfo.Name) of a clean, non-empty path.
Base(path) == SubSeq(path, LastSep(path, Len(path)) + 1, Len(path))

\* filepath.Dir of a clean path: everything before the last separator,
\* "." when nothing is left, "/" for an entry of the file system root.
Dir(path) ==
    LET i == LastSep(path, Len(path))
    IN  IF i = 0 THEN Dot
        ELSE IF i = 1 THEN <<Separator>>
        ELSE SubSeq(path, 1, i - 1)

NoExtension == <<"n", "o", "_", "e", "x", "t", "e", "n", "s", "i", "o", "n">>

\* ExtKey without the call of strings.ToLower.
ExtKeyCaseSensitive(path) ==
    IF Ext(path) = << >> THEN NoExtension ELSE Ext(path)

\* main.go:76-79
ExtKey(path) ==
    LET ext == ToLower(Ext(path))
    IN  IF ext = << >> THEN NoExtension ELSE ext

-----------------------------------------------------------------------------
(* The file system that filepath.WalkDir walks *)

ZeroTime == 0      \* time.Time{}, the value IsZero() reports

\* The candidate entries below the root ".", in the lexical order in which
\* WalkDir visits them; parent is the index of the containing directory
\* (0: the root).  WalkDir passes filepath.Join(".", name), i.e. the path
\* relative to the root, to the callback.
Cand == <<
    [path |-> <<"a", ".", "T", "X", "T">>,                     isDir |-> FALSE, parent |-> 0],
    [path |-> <<"b", ".", "t", "x", "t">>,                     isDir |-> FALSE, parent |-> 0],
    [path |-> <<"d", ".", "e">>,                               isDir |-> TRUE,  parent |-> 0],
    [path |-> <<"d", ".", "e", "/", "a", ".", "T", "X", "T">>, isDir |-> FALSE, parent |-> 3],
    [path |-> <<"d", ".", "e", "/", "c">>,                     isDir |-> FALSE, parent |-> 3] >>

Sizes == {100, 200}          \* info.Size() of a walked file
MinSizes == {0, 200}         \* values of -min-size
Times == 1..NumTimes         \* info.ModTime() of a walked file

Absent == [kind |-> "absent", size |-> 0, mtime |-> ZeroTime]

\* What the file system may hold at candidate i, given the part fs already walked:
\* nothing; a file (whose Info() may fail); a directory (whose ReadDir may fail).
\* An entry exists only inside an existing directory.
EntryChoices(fs, i) ==
    IF Cand[i].parent # 0 /\ fs[Cand[i].parent].kind \notin {"dir", "direrr"}
    THEN {Absent}
    ELSE IF Cand[i].isDir
    THEN {Absent} \cup {[kind |-> k, size |-> 0, mtime |-> ZeroTime] : k \in {"dir", "direrr"}}
    ELSE {Absent} \cup {[kind |-> "infoerr", size |-> 0, mtime |-> ZeroTime]}
                  \cup {[kind |-> "file", size |-> sz, mtime |-> t] : sz \in Sizes, t \in Times}

-----------------------------------------------------------------------------
(* main(): the WalkDir callback *)

\* getAccessTime(info): os.Open(info.Name()) opens the BASE NAME of the entry,
\* which the OS resolves against the working directory (the root ".", -dir's
\* default), and returns that file's ModTime(); the zero time when the open
\* fails (no such file there, or openOK = FALSE: permission denied).
getAccessTime(fs, name, openOK) ==
    LET hits == {i \in 1..Len(fs) : Cand[i].path = name /\ fs[i].kind = "file"}
    IN  IF hits = {} \/ ~openOK THEN ZeroTime
        ELSE fs[CHOOSE i \in hits : TRUE].mtime

\* The collector's state threaded through the callback.
Collected == [files |-> files, totalSize |-> totalSize,
              directorySizes |-> directorySizes, out |-> out, ret |-> Nil]

\* WalkFn without the size floor of main.go:72-74.
WalkFnNoFloor(st, path, err, e, atime) ==
    IF err
    THEN [st EXCEPT !.out = Append(@, [msg |-> "Error accessing", path |-> path]),
                    !.ret = Nil]
    ELSE IF e.kind \in {"dir", "direrr"}
    THEN [st EXCEPT !.ret = Nil]
    ELSE IF e.kind = "infoerr"
    THEN [st EXCEPT !.out = Append(@, [msg |-> "Error getting info", path |-> path]),
                    !.ret = Nil]
    ELSE LET fileData == [Path |-> path, Size |-> e.size, Ext |-> ExtKey(path),
                          LastUsed |-> IF atime # ZeroTime THEN atime ELSE e.mtime]
         IN  [st EXCEPT !.files = Append(@, fileData),
                        !.totalSize = @ + e.size,
                        !.directorySizes = MapAdd(@, Dir(path), e.size),
                        !.ret = Nil]

\* The callback passed to filepath.WalkDir: err is "the err argument is set",
\* e is what the file system holds at path, atime the result of getAccessTime.
WalkFn(st, path, err, e, atime) ==
    IF err
    THEN [st EXCEPT !.out = Append(@, [msg |-> "Error accessing", path |-> path]),
                    !.ret = Nil]
    ELSE IF e.kind \in {"dir", "direrr"}
    THEN [st EXCEPT !.ret = Nil]
    ELSE IF e.kind = "infoerr"
    THEN [st EXCEPT !.out = Append(@, [msg |-> "Error getting info", path |-> path]),
                    !.ret = Nil]
    ELSE IF e.size < minSize
    THEN [st EXCEPT !.ret = Nil]
    ELSE LET fileData == [Path |-> path, Size |-> e.size, Ext |-> ExtKey(path),
                          LastUsed |-> IF atime # ZeroTime THEN atime ELSE e.mtime]
         IN  [st EXCEPT !.files = Append(@, fileData),
                        !.totalSize = @ + e.size,
                        !.directorySizes = MapAdd(@, Dir(path), e.size),
                        !.ret = Nil]

\* walkDir on one entry: the callback on the entry, and for a directory whose
\* ReadDir fails the callback again with the error.  A non-nil return of the
\* callback ends the walk.
VisitEntry(st, path, e, atime) ==
    LET s1 == WalkFn(st, path, FALSE, e, atime)
    IN  IF s1.ret # Nil \/ e.kind # "direrr" THEN s1
        ELSE WalkFn(s1, path, TRUE, e, atime)

-----------------------------------------------------------------------------
(* main() *)

\* main.go:39-53: an empty -dir exits with status 1 before anything is scanned.
MainStart ==
    /\ pc = "start"
    /\ IF dirFlag = << >>
       THEN /\ out' = Append(out, [msg |-> "Error: directory path cannot be empty",
                                   path |-> dirFlag])
            /\ pc' = "exit"
       ELSE /\ out' = out
            /\ pc' = "walk"
    /\ UNCHANGED <<dirFlag, minSize, fsys, rootKind, files, totalSize, directorySizes,
                   walkErr, results>>
    /\ UNCHANGED reportVars /\ UNCHANGED fmtVars

\* filepath.WalkDir(root, fn), first step: os.Lstat(root).  When it fails, fn is
\* called once with the error and WalkDir returns what fn returns; otherwise
\* the root is visited like any directory.
WalkRoot ==
    /\ pc = "walk" /\ rootKind = Nil
    /\ \E k \in {"missing", "dir", "direrr"} :
         LET e  == [kind |-> k, size |-> 0, mtime |-> ZeroTime]
             s1 == IF k = "missing" THEN WalkFn(Collected, dirFlag, TRUE, e, ZeroTime)
                   ELSE VisitEntry(Collected, dirFlag, e, ZeroTime)
         IN  /\ rootKind' = k
             /\ files' = s1.files
             /\ totalSize' = s1.totalSize
             /\ directorySizes' = s1.directorySizes
             /\ out' = s1.out
             /\ walkErr' = s1.ret
             /\ pc' = IF k = "missing" \/ s1.ret # Nil THEN "walked" ELSE "walk"
    /\ UNCHANGED <<dirFlag, minSize, fsys, results>>
    /\ UNCHANGED reportVars /\ UNCHANGED fmtVars

\* filepath.WalkDir, next candidate in lexical order: the environment decides
\* what is there, and an existing entry is passed to the callback.
WalkEntry ==
    /\ pc = "walk" /\ rootKind # Nil /\ Len(fsys) < Len(Cand)
    /\ LET i == Len(fsys) + 1 IN
       \E e \in EntryChoices(fsys, i), openOK \in BOOLEAN :
         LET fs1   == Append(fsys, e)
             path  == Cand[i].path
             atime == getAccessTime(fs1, Base(path), openOK)
             s1    == IF e.kind = "absent" THEN Collected
                      ELSE VisitEntry(Collected, path, e, atime)
         IN  /\ fsys' = fs1
             /\ files' = s1.files
             /\ totalSize' = s1.totalSize
             /\ directorySizes' = s1.directorySizes
             /\ out' = s1.out
             /\ walkErr' = s1.ret
             /\ pc' = IF s1.ret # Nil THEN "walked" ELSE "walk"
    /\ UNCHANGED <<dirFlag, minSize, rootKind, results>>
    /\ UNCHANGED reportVars /\ UNCHANGED fmtVars

\* filepath.WalkDir returns nil after the last entry.
WalkReturn ==
    /\ pc = "walk" /\ rootKind # Nil /\ Len(fsys) = Len(Cand)
    /\ pc' = "walked"
    /\ walkErr' = Nil
    /\ UNCHANGED <<dirFlag, minSize, fsys, rootKind, files, totalSize, directorySizes,
                   out, results>>
    /\ UNCHANGED reportVars /\ UNCHANGED fmtVars

-----------------------------------------------------------------------------
(* analyzeFiles *)

\* The less functions handed to sort.Slice: by analyzeFiles on the files, by
\* printAnalysis (through printSortedMap) on the entries of a map.
SizeGreater(a, b) == a.Size > b.Size
UsedBefore(a, b) == a.LastUsed < b.LastUsed
ValueGreater(a, b) == a.Value > b.Value

Less(f, a, b) ==
    CASE f = "SizeGreater"  -> SizeGreater(a, b)
      [] f = "UsedBefore"   -> UsedBefore(a, b)
      [] f = "ValueGreater" -> ValueGreater(a, b)

\* sort.Slice(s, less): the slice is reordered so that no element is less than
\* one before it.  "The sort is not guaranteed to be stable": elements that
\* compare equal may come out in any order.
SortSlice(s, less) ==
    {p \in Perms(s) : \A i, j \in 1..Len(s) : i < j => ~Less(less, p[j], p[i])}

\* for _, file := range files { filesByExt[file.Ext]++ }
RECURSIVE FilesByExt(_)
FilesByExt(fs) ==
    IF fs = << >> THEN EmptyMap
    ELSE MapAdd(FilesByExt(SubSeq(fs, 1, Len(fs) - 1)), fs[Len(fs)].Ext, 1)

\* SizeByExt with sizeByExt[file.Ext] = file.Size in place of +=.
RECURSIVE SizeByExtAssign(_)
SizeByExtAssign(fs) ==
    IF fs = << >> THEN EmptyMap
    ELSE LET m == SizeByExtAssign(SubSeq(fs, 1, Len(fs) - 1))
             f == fs[Len(fs)]
         IN  [x \in DOMAIN m \cup {f.Ext} |-> IF x = f.Ext THEN f.Size ELSE m[x]]

\* for _, file := range files { sizeByExt[file.Ext] += file.Size }
RECURSIVE SizeByExt(_)
SizeByExt(fs) ==
    IF fs = << >> THEN EmptyMap
    ELSE MapAdd(SizeByExt(SubSeq(fs, 1, Len(fs) - 1)), fs[Len(fs)].Ext, fs[Len(fs)].Size)

\* The results analyzeFiles may return (one per outcome of the two sorts).
analyzeFiles(fs, total, dirSizes) ==
    {[TotalFiles       |-> Len(fs),
      TotalSize        |-> total,
      LargestFiles     |-> largest,
      FilesByExtension |-> FilesByExt(fs),
      SizeByExtension  |-> SizeByExt(fs),
      OldestFiles      |-> oldest,
      DirectorySizes   |-> dirSizes] :
        largest \in SortSlice(fs, "SizeGreater"), oldest \in SortSlice(fs, "UsedBefore")}

\* main.go:103-114: after the walk.
MainAfterWalk ==
    /\ pc = "walked"
    /\ IF walkErr # Nil
       THEN /\ out' = Append(out, [msg |-> "Error walking directory", path |-> dirFlag])
            /\ pc' = "exit"
            /\ results' = results
       ELSE IF Len(files) = 0
       THEN /\ out' = Append(out, [msg |-> "No files found matching the criteria.",
                                   path |-> dirFlag])
            /\ pc' = "exit"
            /\ results' = results
       ELSE /\ results' \in analyzeFiles(files, totalSize, directorySizes)
            /\ out' = out
            /\ pc' = "print"
    /\ UNCHANGED <<dirFlag, minSize, fsys, rootKind, files, totalSize, directorySizes,
                   walkErr>>
    /\ UNCHANGED reportVars /\ UNCHANGED fmtVars

-----------------------------------------------------------------------------
(* Spec: the scan *)

Init ==
    /\ pc = "start"
    /\ dirFlag \in {Dot, << >>}
    /\ minSize \in MinSizes
    /\ fsys = << >>
    /\ rootKind = Nil
    /\ files = << >>
    /\ totalSize = 0
    /\ directorySizes = EmptyMap
    /\ walkErr = Nil
    /\ out = << >>
    /\ results = Nil
    /\ now = 0 /\ topN = 0 /\ daysUnused = 0 /\ report = Nil
    /\ fmtIn = 0 /\ fmtOut = Nil

Next == MainStart \/ WalkRoot \/ WalkEntry \/ WalkReturn \/ MainAfterWalk

Spec == Init /\ [][Next]_vars

-----------------------------------------------------------------------------
(* Properties of the scan (Spec) *)

\* The walked files that pass the size floor, as the file system has them.
InclIdx == {i \in 1..Len(fsys) : fsys[i].kind = "file" /\ fsys[i].size >= minSize}
DroppedIdx == {i \in 1..Len(fsys) : fsys[i].kind = "file" /\ fsys[i].size < minSize}

\* The directory that contains candidate i.
ParentDir(i) == IF Cand[i].parent = 0 THEN Dot ELSE Cand[Cand[i].parent].path

\* Total size of the walked files with index in S.
RECURSIVE SumIdx(_)
SumIdx(S) ==
    IF S = {} THEN 0
    ELSE LET i == CHOOSE x \in S : TRUE IN fsys[i].size + SumIdx(S \ {i})

\* The ranked sequence r holds exactly the records of fs, each once.
IsPermutationOf(r, fs) ==
    /\ Len(r) = Len(fs)
    /\ \A i \in 1..Len(fs) : Cardinality({j \in 1..Len(r) : r[j] = fs[i]}) = 1

\* C1: at every point of a scan the collected records are exactly the walked
\* files of size >= minSize, in walk order; files below the floor, directories
\* and failed entries add nothing to totalSize, sizeByDirectory or the
\* extension maps; and the summary has totalFileCount = len(largest) =
\* len(oldest), both rankings being permutations of the collected records.
C1_HardFilter ==
    /\ \A k \in 1..Len(files) : files[k].Size >= minSize
    /\ Len(files) = Cardinality(InclIdx)
    /\ \A i \in InclIdx :
         \E k \in 1..Len(files) :
            /\ files[k].Path = Cand[i].path /\ files[k].Size = fsys[i].size
            /\ k = Cardinality({j \in InclIdx : j <= i})
    /\ totalSize = SumIdx(InclIdx)
    /\ DOMAIN directorySizes = {ParentDir(i) : i \in InclIdx}
    /\ \A d \in DOMAIN directorySizes :
         directorySizes[d] = SumIdx({i \in InclIdx : ParentDir(i) = d})
    /\ pc = "print" =>
         /\ results.TotalFiles = Len(results.LargestFiles)
         /\ results.TotalFiles = Len(results.OldestFiles)
         /\ results.TotalFiles = Cardinality(InclIdx)
         /\ IsPermutationOf(results.LargestFiles, files)
         /\ IsPermutationOf(results.OldestFiles, files)
         /\ \A k \in 1..Len(results.LargestFiles) : results.LargestFiles[k].Size >= minSize
         /\ results.TotalSize = SumIdx(InclIdx)
         /\ SumMap(results.SizeByExtension) = SumIdx(InclIdx)
         /\ SumMap(results.FilesByExtension) = Cardinality(InclIdx)
         /\ SumMap(results.DirectorySizes) = SumIdx(InclIdx)

\* A summary of a scan that kept two files and dropped one below the floor.
C1_Witness ==
    /\ pc = "print"
    /\ DroppedIdx # {}
    /\ Cardinality(InclIdx) >= 2
    /\ \E i \in 1..Len(fsys) : fsys[i].kind = "infoerr"

\* C2: in every summary, sum(sizeByExtension) = totalSizeBytes =
\* sum(sizeByDirectory) = sum of the record sizes, sum(countByExtension) =
\* totalFileCount, each directory key holds the sizes of the records directly
\* inside it (nothing is added to an ancestor), and each extension key holds
\* the sizes and the number of the records with that extension.
C2_SumsAgree ==
    pc = "print" =>
        /\ SumMap(results.SizeByExtension) = results.TotalSize
        /\ SumMap(results.DirectorySizes) = results.TotalSize
        /\ SumSizes(results.LargestFiles) = results.TotalSize
        /\ SumSizes(results.OldestFiles) = results.TotalSize
        /\ SumMap(results.FilesByExtension) = results.TotalFiles
        /\ DOMAIN results.DirectorySizes = {ParentDir(i) : i \in InclIdx}
        /\ \A d \in DOMAIN results.DirectorySizes :
             results.DirectorySizes[d] = SumIdx({i \in InclIdx : ParentDir(i) = d})
        /\ DOMAIN results.SizeByExtension = {files[k].Ext : k \in 1..Len(files)}
        /\ DOMAIN results.FilesByExtension = DOMAIN results.SizeByExtension
        /\ \A x \in DOMAIN results.SizeByExtension :
             LET S == {k \in 1..Len(files) : files[k].Ext = x}
             IN  /\ results.FilesByExtension[x] = Cardinality(S)
                 /\ results.SizeByExtension[x] =
                        SumSizes(SelectSeq(files, LAMBDA f : f.Ext = x))

\* A summary with files in the root and in a subdirectory, two of them sharing
\* an extension key.
C2_Witness ==
    /\ pc = "print"
    /\ Cardinality(DOMAIN results.DirectorySizes) = 2
    /\ \E x \in DOMAIN results.FilesByExtension : results.FilesByExtension[x] >= 2
    /\ Cardinality(DOMAIN results.FilesByExtension) >= 2

Printed(m) == \E k \in 1..Len(out) : out[k].msg = m

\* Sorted and stable with respect to the order of collection.
RankedStably(r, fs, less) ==
    /\ IsPermutationOf(r, fs)
    /\ \A i, j \in 1..Len(r) : i < j => ~Less(less, r[j], r[i])
    /\ \A i, j \in 1..Len(r) :
         (i < j /\ ~Less(less, r[i], r[j])) => IndexOf(fs, r[i]) < IndexOf(fs, r[j])

\* C3: analyzeFiles returns filesBySizeDescending non-increasing by size and
\* filesByLastUsedAscending non-decreasing by lastUsed, and records with equal
\* keys keep the relative order in which the walk collected them.
C3_StableRanking ==
    pc = "print" =>
        /\ RankedStably(results.LargestFiles, files, "SizeGreater")
        /\ RankedStably(results.OldestFiles, files, "UsedBefore")

\* C4: when the root cannot be walked at all the scan ends with the failure
\* "Error walking directory" and never with the informational "No files found
\* matching the criteria."
C4_RootFailureIsFatal ==
    (pc = "exit" /\ rootKind = "missing") =>
        /\ walkErr # Nil
        /\ Printed("Error walking directory")
        /\ ~Printed("No files found matching the criteria.")

\* The extension of a path read off its file name: the lower-cased suffix of
\* the name that starts at its last dot (withDot), or that follows it.
NameSuffix(path, withDot) ==
    LET name == Base(path)
        dots == {i \in 1..Len(name) : name[i] = "."}
        last == CHOOSE i \in dots : \A j \in dots : j <= i
    IN  IF dots = {} THEN NoExtension
        ELSE ToLower(SubSeq(name, IF withDot THEN last ELSE last + 1, Len(name)))

ExtTxt == <<"t", "x", "t">>
ExtDotTxt == <<".", "t", "x", "t">>

\* The scan has collected a.TXT (100 B) and b.txt (200 B) and no other file
\* with that extension.
TxtExample ==
    /\ pc = "print"
    /\ Len(files) >= 2
    /\ files[1].Path = Cand[1].path /\ files[1].Size = 100
    /\ files[2].Path = Cand[2].path /\ files[2].Size = 200
    /\ \A k \in 3..Len(files) : files[k].Path # Cand[4].path

\* C6 as stated: the extension key is the lower-cased text after the final dot
\* of the file name, without the dot, or "no_extension"; a.TXT (100 B) and
\* b.txt (200 B) are grouped under "txt" with count 2 and size 300.
C6_KeyWithoutDot ==
    /\ \A k \in 1..Len(files) : files[k].Ext = NameSuffix(files[k].Path, FALSE)
    /\ TxtExample =>
         /\ ExtTxt \in DOMAIN results.FilesByExtension
         /\ results.FilesByExtension[ExtTxt] = 2
         /\ results.SizeByExtension[ExtTxt] = 300

\* C6 amended: the extension key is the lower-cased suffix of the file name
\* that starts at its final dot, the dot included, or "no_extension" when the
\* file name has no dot; a.TXT (100 B) and b.txt (200 B) are grouped under
\* ".txt" with count 2 and size 300.
C6_KeyWithDot ==
    /\ \A k \in 1..Len(files) : files[k].Ext = NameSuffix(files[k].Path, TRUE)
    /\ pc = "print" =>
         /\ DOMAIN results.FilesByExtension = {NameSuffix(files[k].Path, TRUE) : k \in 1..Len(files)}
         /\ DOMAIN results.SizeByExtension = DOMAIN results.FilesByExtension
    /\ TxtExample =>
         /\ ExtDotTxt \in DOMAIN results.FilesByExtension
         /\ results.FilesByExtension[ExtDotTxt] = 2
         /\ results.SizeByExtension[ExtDotTxt] = 300

\* The a.TXT/b.txt example in a scan that also collected the extension-less
\* file d.e/c.
C6_Witness ==
    /\ TxtExample
    /\ Len(files) = 3
    /\ files[3].Path = Cand[5].path
    /\ results.FilesByExtension[NoExtension] = 1
    /\ results.SizeByExtension[ExtDotTxt] = 300

\* C9: the lastUsed of every record is a timestamp of the file at the record's
\* own path.
C9_LastUsedOfSameFile ==
    \A k \in 1..Len(files) :
        \E i \in 1..Len(fsys) :
            /\ Cand[i].path = files[k].Path
            /\ fsys[i].kind = "file"
            /\ files[k].LastUsed = fsys[i].mtime

-----------------------------------------------------------------------------
(* formatTime *)

Minute == 60       \* time.Minute, in seconds
Hour == 3600       \* time.Hour, in seconds

\* %.0f replaced by a truncation to the integer part.
Truncate(n, d) == n \div d

\* fmt's %.0f of the quotient n/d (n >= 0, d > 0): the nearest integer, a tie
\* going to the even one.
RoundHalfEven(n, d) ==
    LET q == n \div d
        r == n % d
    IN  IF 2 * r < d THEN q
        ELSE IF 2 * r > d THEN q + 1
        ELSE IF q % 2 = 0 THEN q ELSE q + 1

Fmt0(n, d) == ToString(RoundHalfEven(n, d))

\* formatTime(t) at time nowT.
formatTime(nowT, t) ==
    IF t = ZeroTime THEN "unknown"
    ELSE LET diff == nowT - t
         IN  IF diff < Minute THEN "just now"
             ELSE IF diff < Hour THEN Fmt0(diff, Minute) \o " minutes ago"
             ELSE IF diff < 24 * Hour THEN Fmt0(diff, Hour) \o " hours ago"
             ELSE IF diff < 30 * 24 * Hour THEN Fmt0(diff, 24 * Hour) \o " days ago"
             ELSE IF diff < 365 * 24 * Hour THEN Fmt0(diff, 30 * 24 * Hour) \o " months ago"
             ELSE Fmt0(diff, 365 * 24 * Hour) \o " years ago"

-----------------------------------------------------------------------------
(* printAnalysis *)

\* for i := 0; i < topN && i < len(s); i++ { print s[i] }   (i counts from 0)
RECURSIVE TopLoop(_, _, _)
TopLoop(s, n, i) ==
    IF i < n /\ i < Len(s) THEN <<s[i + 1]>> \o TopLoop(s, n, i + 1) ELSE << >>

\* Before replaced by "not after".
NotAfterCutoff(f, cutoff) == f.LastUsed <= cutoff

\* file.LastUsed.Before(cutoff)
BeforeCutoff(f, cutoff) == f.LastUsed < cutoff

\* The loop over results.OldestFiles: a file before the cutoff is printed, and
\* the loop breaks when, AFTER printing, printed >= topN.
RECURSIVE UnusedLoop(_, _, _, _)
UnusedLoop(s, n, cutoff, printed) ==
    IF s = << >> THEN << >>
    ELSE IF BeforeCutoff(Head(s), cutoff)
    THEN <<Head(s)>> \o (IF printed + 1 >= n THEN << >>
                         ELSE UnusedLoop(Tail(s), n, cutoff, printed + 1))
    ELSE UnusedLoop(Tail(s), n, cutoff, printed)

\* One printed file line: formatSize(file.Size) is kept as the number.
FileLine(f, nowT) == [Size |-> f.Size, Path |-> f.Path, Used |-> formatTime(nowT, f.LastUsed)]

Lines(s, nowT) == [i \in 1..Len(s) |-> FileLine(s[i], nowT)]

\* for k, v := range m: Go iterates a map in an unspecified order.
RangeMap(m) ==
    LET E == {[Key |-> k, Value |-> m[k]] : k \in DOMAIN m}
    IN  {p \in [1..Cardinality(E) -> E] : \A i, j \in 1..Cardinality(E) : i # j => p[i] # p[j]}

\* printSortedMap without the call of sort.Slice.
printUnsortedMap(m, n) == {TopLoop(it, n, 0) : it \in RangeMap(m)}

\* printSortedMap(m, topN, less, format): the sequences of lines it may print.
printSortedMap(m, n) ==
    {TopLoop(sorted, n, 0) :
        sorted \in UNION {SortSlice(it, "ValueGreater") : it \in RangeMap(m)}}

Day == 24 * Hour

\* printAnalysis(results, topN, daysUnused) at time nowT: the reports it may print.
printAnalysis(res, n, du, nowT) ==
    LET cutoff == nowT - du * Day      \* time.Now().AddDate(0, 0, -daysUnused), days of 24 hours
        unused == UnusedLoop(res.OldestFiles, n, cutoff, 0)
    IN  {[largest   |-> Lines(TopLoop(res.LargestFiles, n, 0), nowT),
          unused    |-> Lines(unused, nowT),
          noneFound |-> (Len(unused) = 0),
          extCount  |-> c,
          extSize   |-> z,
          dirs      |-> d] :
            c \in printSortedMap(res.FilesByExtension, n),
            z \in printSortedMap(res.SizeByExtension, n),
            d \in printSortedMap(res.DirectorySizes, n)}

TopNs == {-1, 0, 1, 2, 3}        \* values of -top
DaysUnusedSet == {0, 30}         \* values of -days-unused

\* main.go:117: printAnalysis(results, *topPtr, *daysUnusedPtr)
PrintAnalysis ==
    /\ pc = "print"
    /\ \E n \in TopNs, du \in DaysUnusedSet :
         /\ topN' = n
         /\ daysUnused' = du
         /\ report' \in printAnalysis(results, n, du, now)
    /\ pc' = "done"
    /\ UNCHANGED scanVars /\ UNCHANGED <<results, now>> /\ UNCHANGED fmtVars

-----------------------------------------------------------------------------
(* SpecReport: analyzeFiles and printAnalysis on every collected list *)

Clock == {800 * Day}
Ages == {10, 30, 40}             \* days since a file was last used

\* The records a scan can collect: in walk order, at most MaxFiles of them.
RECURSIVE DirSizesOf(_)
DirSizesOf(fs) ==
    IF fs = << >> THEN EmptyMap
    ELSE MapAdd(DirSizesOf(SubSeq(fs, 1, Len(fs) - 1)), Dir(fs[Len(fs)].Path), fs[Len(fs)].Size)

CollectedLists(nowT) ==
    LET idx   == {i \in 1..Len(Cand) : ~Cand[i].isDir}
        used  == {ZeroTime} \cup {nowT - a * Day : a \in Ages}
        Nth(S, k) == CHOOSE i \in S : Cardinality({j \in S : j <= i}) = k
    IN  UNION {{[k \in 1..Cardinality(S) |->
                    [Path     |-> Cand[Nth(S, k)].path,
                     Size     |-> sz[Nth(S, k)],
                     Ext      |-> ExtKey(Cand[Nth(S, k)].path),
                     LastUsed |-> lu[Nth(S, k)]]] :
                 sz \in [S -> Sizes], lu \in [S -> used]} :
               S \in {T \in SUBSET idx : Cardinality(T) <= MaxFiles}}

InitReport ==
    /\ pc = "walked"
    /\ dirFlag = Dot
    /\ minSize = 0
    /\ fsys = << >>
    /\ rootKind = "dir"
    /\ now \in Clock
    /\ files \in CollectedLists(now)
    /\ totalSize = SumSizes(files)
    /\ directorySizes = DirSizesOf(files)
    /\ walkErr = Nil
    /\ out = << >>
    /\ results = Nil
    /\ topN = 0 /\ daysUnused = 0 /\ report = Nil
    /\ fmtIn = 0 /\ fmtOut = Nil

NextReport == MainAfterWalk \/ PrintAnalysis

SpecReport == InitReport /\ [][NextReport]_vars

-----------------------------------------------------------------------------
(* Properties of the report (SpecReport) *)

Reported == pc = "done"

Cutoff == now - daysUnused * Day

\* The records of filesByLastUsedAscending last used strictly before the cutoff.
Stale == SelectSeq(results.OldestFiles, LAMBDA f : f.LastUsed < Cutoff)

PathsOf(s) == [i \in 1..Len(s) |-> s[i].Path]

\* C5: for topN >= 1 the unused-files section shows exactly the first
\* min(topN, k) records of filesByLastUsedAscending that were last used
\* strictly before now - daysUnused days, in that order, k being their number;
\* no record used at or after the cutoff is shown; and the "none found" line
\* is printed iff k = 0.
C5_UnusedSection ==
    (Reported /\ topN >= 1) =>
        /\ PathsOf(report.unused) = PathsOf(SubSeq(Stale, 1, Min(topN, Len(Stale))))
        /\ \A i \in 1..Len(report.unused) :
             \E f \in Range(results.OldestFiles) :
                f.Path = report.unused[i].Path /\ f.LastUsed < Cutoff
        /\ report.noneFound <=> (Len(Stale) = 0)

\* A report cut off at topN = 1 with a second stale file left over and a
\* file used exactly at the cutoff left out.
C5_Witness ==
    /\ Reported /\ topN = 1 /\ daysUnused = 30
    /\ Len(Stale) = 2 /\ Len(report.unused) = 1
    /\ \E f \in Range(results.OldestFiles) : f.LastUsed = Cutoff
    /\ ~report.noneFound

\* The order on "key, value" entries that breaks ties of the value by key.
EntryBefore(a, b) == a.Value > b.Value \/ (a.Value = b.Value /\ StrLess(a.Key, b.Key))

\* The entries of m by descending value, equal values by ascending key, cut at n.
KeyOrderedTop(m, n) ==
    LET E == {[Key |-> k, Value |-> m[k]] : k \in DOMAIN m}
        sorted == CHOOSE p \in [1..Cardinality(E) -> E] :
                     \A i, j \in 1..Cardinality(E) : i < j => EntryBefore(p[i], p[j])
    IN  SubSeq(sorted, 1, Min(Max(n, 0), Cardinality(E)))

\* C7 as stated: each grouped section shows the first min(topN, number of keys)
\* entries of its mapping by descending value, ties broken by key order, so the
\* lines shown are a function of the mapping and topN alone.
C7_TiesByKeyOrder ==
    Reported =>
        /\ report.extCount = KeyOrderedTop(results.FilesByExtension, topN)
        /\ report.extSize = KeyOrderedTop(results.SizeByExtension, topN)
        /\ report.dirs = KeyOrderedTop(results.DirectorySizes, topN)

\* sec shows min(n, number of keys) entries of m (none for n <= 0), each key at
\* most once, by non-increasing value, and no key left out has a larger value
\* than one shown.
TopByValue(sec, m, n) ==
    /\ Len(sec) = Min(Max(n, 0), Cardinality(DOMAIN m))
    /\ \A i \in 1..Len(sec) : sec[i].Key \in DOMAIN m /\ sec[i].Value = m[sec[i].Key]
    /\ \A i, j \in 1..Len(sec) : i < j => sec[i].Key # sec[j].Key /\ sec[i].Value >= sec[j].Value
    /\ \A k \in DOMAIN m :
         (\A i \in 1..Len(sec) : sec[i].Key # k) => \A i \in 1..Len(sec) : sec[i].Value >= m[k]

\* C7 amended: each grouped section shows min(topN, number of keys) entries of
\* its mapping (none when topN <= 0) by non-increasing value, and every key
\* left out has a value no larger than those shown; the order of keys with
\* equal values, and which of them is shown when a tie straddles the cut-off,
\* is not determined.
C7_TopByValue ==
    Reported =>
        /\ TopByValue(report.extCount, results.FilesByExtension, topN)
        /\ TopByValue(report.extSize, results.SizeByExtension, topN)
        /\ TopByValue(report.dirs, results.DirectorySizes, topN)

\* A tie that straddles the cut-off, resolved against key order: two directories
\* of equal size, topN = 1, and the one shown is not the first by key.
C7_Witness ==
    /\ Reported /\ topN = 1
    /\ Cardinality(DOMAIN results.DirectorySizes) = 2
    /\ \A k \in DOMAIN results.DirectorySizes : results.DirectorySizes[k] = report.dirs[1].Value
    /\ \E k \in DOMAIN results.DirectorySizes : StrLess(k, report.dirs[1].Key)
    /\ Len(report.extSize) = 1
    /\ \E k \in DOMAIN results.SizeByExtension : results.SizeByExtension[k] < report.extSize[1].Value

\* C10: for any topN no section of the report shows more than max(topN, 0)
\* entries.
C10_NoSectionExceedsTopN ==
    Reported =>
        /\ Len(report.largest) <= Max(topN, 0)
        /\ Len(report.unused) <= Max(topN, 0)
        /\ Len(report.extCount) <= Max(topN, 0)
        /\ Len(report.extSize) <= Max(topN, 0)
        /\ Len(report.dirs) <= Max(topN, 0)

-----------------------------------------------------------------------------
(* SpecFmt: formatTime on a set of elapsed durations *)

\* Elapsed durations now - t, in seconds: every half minute up to an hour,
\* every half hour up to two days, every half day up to 60 days, every five
\* days up to 800 days (the last one is the zero time), and a time in the
\* future.
Elapsed ==
    {k * 30 : k \in 0..120} \cup {k * 30 * Minute : k \in 0..96}
        \cup {k * 12 * Hour : k \in 0..120} \cup {k * 5 * Day : k \in 0..160}
        \cup {0 - Minute}

InitFmt ==
    /\ pc = "format"
    /\ now \in Clock
    /\ fmtIn \in Elapsed
    /\ fmtOut = Nil
    /\ dirFlag = Dot /\ minSize = 0 /\ fsys = << >> /\ rootKind = Nil
    /\ files = << >> /\ totalSize = 0 /\ directorySizes = EmptyMap
    /\ walkErr = Nil /\ out = << >> /\ results = Nil
    /\ topN = 0 /\ daysUnused = 0 /\ report = Nil

\* A call formatTime(t) with now - t = fmtIn.
FormatTime ==
    /\ pc = "format"
    /\ fmtOut' = formatTime(now, now - fmtIn)
    /\ pc' = "formatted"
    /\ UNCHANGED scanVars /\ UNCHANGED reportVars /\ UNCHANGED <<results, fmtIn>>

NextFmt == FormatTime

SpecFmt == InitFmt /\ [][NextFmt]_vars

\* C8 as stated: formatTime returns "just now" for 30 seconds elapsed,
\* "2 hours ago" for 90 minutes and "13 months ago" for 400 days.
C8_FormatTimeExamples ==
    pc = "formatted" =>
        /\ fmtIn = 30 => fmtOut = "just now"
        /\ fmtIn = 90 * Minute => fmtOut = "2 hours ago"
        /\ fmtIn = 400 * Day => fmtOut = "13 months ago"

\* C8 amended: formatTime returns "just now" for 30 seconds elapsed,
\* "2 hours ago" for 90 minutes (the value rounded to the nearest integer) and
\* "1 years ago" for 400 days (365 days or more are counted in 365-day years).
C8_FormatTimeAmended ==
    pc = "formatted" =>
        /\ fmtIn = 30 => fmtOut = "just now"
        /\ fmtIn = 90 * Minute => fmtOut = "2 hours ago"
        /\ fmtIn = 400 * Day => fmtOut = "1 years ago"

\* formatTime has been called with 400 days elapsed.
C8_Witness == pc = "formatted" /\ fmtIn = 400 * Day /\ fmtOut = "1 years ago"

=============================================================================
